---- MODULE Spec2Model ----
(***************************************************************************)
(* Model of dscore/system.py (PyDSTK): the LinearDS / NonLinearDS model    *)
(* entities, SVD based identification, the online windowed estimators,     *)
(* synthesis and the state-space map.                                      *)
(*                                                                         *)
(* Numerical arrays are abstracted to their shape and their provenance     *)
(* (the observation matrix they were computed from); Python objects are    *)
(* modelled as their attribute dictionary, every value carrying a tag so   *)
(* that None can be told from a number, a boolean or an array.             *)
(***************************************************************************)
EXTENDS Integers, Sequences, FiniteSets, TLC

VARIABLES obj, heap, pushes, last

vars == <<obj, heap, pushes, last>>

----------------------------------------------------------------------------
(* Bounds of the model.                                                    *)

MaxStates == 2
MaxBufLen == 2
MaxShift == 3
MaxPushes == 2
MaxOnlinePushes == 7
MaxDim == 2
MaxT == 2
MaxTau == 1
MaxEntry == 1
MaxSide == 2
MaxEigs == 4

----------------------------------------------------------------------------
(* Python values.                                                          *)

None == [tag |-> "None"]
PyInt(i) == [tag |-> "int", v |-> i]
PyBool(b) == [tag |-> "bool", v |-> b]
PyRef(id) == [tag |-> "ref", v |-> id]
Opaque == [tag |-> "object"]
IsNone(x) == x.tag = "None"

(* An observation vector of length d; v identifies the vector. *)
Vec(d, v) == [tag |-> "vec", d |-> d, v |-> v]

(* A numpy array of the given shape computed by `by` from the observation  *)
(* matrix Y (a sequence of columns).                                       *)
Arr(rows, cols, by, Y) == [tag |-> "arr", rows |-> rows, cols |-> cols, by |-> by, Y |-> Y]

Min(a, b) == IF a < b THEN a ELSE b

(* Outcome of a call: the exception raised ("none" if it returned), the    *)
(* attribute dictionary of self afterwards and the value returned.         *)
Raise(e, d) == [err |-> e, d |-> d, ret |-> None]
Return(d, r) == [err |-> "none", d |-> d, ret |-> r]

(* d with attribute key set to val (attribute created when absent). *)
SetAttr(d, key, val) == [k \in DOMAIN d \cup {key} |-> IF k = key THEN val ELSE d[k]]

----------------------------------------------------------------------------
(* Constructors.                                                           *)

NonLinearDS_init(nStates, kpcaParams, verbose) ==
    Return([Ahat |-> None, Rhat |-> None, Qhat |-> None, Xhat |-> None,
            initX0 |-> None, initM0 |-> None, initS0 |-> None,
            kpcaParams |-> kpcaParams, nStates |-> PyInt(nStates),
            verbose |-> PyBool(verbose), ready |-> PyBool(FALSE)], None)

LinearDS_init(nStates, approx, verbose) ==
    LET d == [Ahat |-> None, Chat |-> None, Rhat |-> None, Qhat |-> None,
              Xhat |-> None, Yavg |-> None, initM0 |-> None, initS0 |-> None,
              approx |-> PyBool(approx), verbose |-> PyBool(verbose),
              nStates |-> PyInt(nStates)]
    IN  IF nStates < 0 THEN Raise("ErrorDS", d)
        ELSE Return(SetAttr(d, "ready", PyBool(FALSE)), None)

(* deque(maxlen = bufLen) followed by bufLen appends of None. *)
NewDeque(bufLen) == [maxlen |-> bufLen, items |-> [i \in 1..bufLen |-> None]]

(* Both online constructors: the nShift guard, the base class constructor, *)
(* then the buffer (a reference to a deque on the heap), nShift and cnt.   *)
Online_init(base, bufLen, nShift, ref) ==
    IF nShift = 0 THEN Raise("ErrorDS", << >>)
    ELSE IF base.err # "none" THEN base
    ELSE IF bufLen < 0 THEN Raise("ValueError", base.d)
    ELSE Return(SetAttr(SetAttr(SetAttr(base.d, "buf", PyRef(ref)),
                                "nShift", PyInt(nShift)),
                        "cnt", PyInt(nShift - 1)), None)

OnlineNonLinearDS_init(nStates, kpcaParam, bufLen, nShift, verbose, ref) ==
    Online_init(NonLinearDS_init(nStates, kpcaParam, verbose), bufLen, nShift, ref)

OnlineLinearDS_init(nStates, bufLen, nShift, approx, verbose, ref) ==
    Online_init(LinearDS_init(nStates, approx, verbose), bufLen, nShift, ref)

----------------------------------------------------------------------------
(* Validity check (identical in NonLinearDS and LinearDS): every attribute *)
(* of the instance dictionary is compared with None.                       *)

(* A faulty check that is satisfied by any attribute that is set. *)
check_any(d) == \E key \in DOMAIN d : ~IsNone(d[key])

check(d) == \A key \in DOMAIN d : ~IsNone(d[key])

----------------------------------------------------------------------------
(* Identification.                                                         *)

(* Y is a sequence of columns; it is a 2-D array only if it has a column   *)
(* and all columns have the same length (np.asarray of anything else has   *)
(* no two-element shape, so that unpacking Y.shape raises).                *)
IsMatrix(Y) == Len(Y) >= 1 /\ \A i \in 1..Len(Y) : Y[i].d = Y[1].d

(* np.linalg.pinv of an array without elements raises LinAlgError in older *)
(* numpy releases and returns an empty array in newer ones.                *)
pinv(rows, cols) == IF rows = 0 \/ cols = 0 THEN {"LinAlgError", "none"} ELSE {"none"}

(* np.linalg.svd, likewise. *)
svd(rows, cols) == IF rows = 0 \/ cols = 0 THEN {"LinAlgError", "none"} ELSE {"none"}

(* The estimates LinearDS.suboptimalSysID computes from a D x tau matrix   *)
(* Y.  U, S, V of the (exact or randomized) SVD have min(N, tau)           *)
(* components at most, so that the slices 0:nStates keep                   *)
(* r = min(nStates, N, tau) of them.                                       *)
estimates(nStates, Y) ==
    LET N == Y[1].d
        tau == Len(Y)
        r == Min(nStates, Min(N, tau))
        by == "suboptimalSysID"
    IN  [Yavg |-> Arr(N, 1, by, Y), Chat |-> Arr(N, r, by, Y),
         Xhat |-> Arr(r, tau, by, Y), initM0 |-> Arr(r, 1, by, Y),
         initS0 |-> Arr(nStates, 1, by, Y), Ahat |-> Arr(r, r, by, Y),
         Qhat |-> Arr(r, r, by, Y), Rhat |-> Arr(1, 1, by, Y)]

(* A faulty identification that stores each estimate as soon as it is      *)
(* computed, so that a failure of the transition fit leaves the first ones. *)
LinearDS_suboptimalSysID_eager(d, Y) ==
    IF ~IsMatrix(Y) THEN {Raise("ValueError", d)}
    ELSE
    LET e == estimates(d.nStates.v, Y)
        early == [d EXCEPT !.Yavg = e.Yavg, !.Chat = e.Chat, !.Xhat = e.Xhat,
                           !.initM0 = e.initM0, !.initS0 = e.initS0]
        saved == [early EXCEPT !.Ahat = e.Ahat, !.Qhat = e.Qhat, !.Rhat = e.Rhat]
        done == IF check(saved) THEN [saved EXCEPT !.ready = PyBool(TRUE)] ELSE saved
    IN  {Raise(x, early) : x \in pinv(e.Xhat.rows, Len(Y) - 1) \ {"none"}}
        \cup (IF Len(Y) - 1 = 0 THEN {Raise("ZeroDivisionError", early)}
              ELSE {Return(done, None)})

(* LinearDS.suboptimalSysID: the set of possible outcomes.  Unpacking the  *)
(* shape of Y raises unless Y is a matrix; the pseudo-inverse of the k x   *)
(* (tau - 1) matrix phi1 may raise when phi1 is empty; 1.0/Vhat.shape[1]   *)
(* raises when tau = 1; the attributes are assigned after all of these.    *)
LinearDS_suboptimalSysID(d, Y) ==
    IF ~IsMatrix(Y) THEN {Raise("ValueError", d)}
    ELSE
    LET e == estimates(d.nStates.v, Y)
        saved == [d EXCEPT !.initS0 = e.initS0, !.initM0 = e.initM0, !.Yavg = e.Yavg,
                           !.Ahat = e.Ahat, !.Chat = e.Chat, !.Xhat = e.Xhat,
                           !.Qhat = e.Qhat, !.Rhat = e.Rhat]
        done == IF check(saved) THEN [saved EXCEPT !.ready = PyBool(TRUE)] ELSE saved
    IN  {Raise(x, d) : x \in pinv(e.Xhat.rows, Len(Y) - 1) \ {"none"}}
        \cup (IF Len(Y) - 1 = 0 THEN {Raise("ZeroDivisionError", d)}
              ELSE {Return(done, None)})

(* The KPCA state estimate (dscore/dskpca.py): a nStates x tau trajectory, *)
(* or a failure.                                                           *)
kpca(Y, nStates) ==
    IF ~IsMatrix(Y) THEN {None}
    ELSE {None, Arr(nStates, Len(Y), "kpca", Y)}

(* NonLinearDS.suboptimalSysID: the set of possible outcomes.  np.cov of a *)
(* single-row Xhat is 0-d, on which np.diag raises.                        *)
NonLinearDS_suboptimalSysID(d, Y) ==
    LET nStates == d.nStates.v
        by == "suboptimalSysID"
        Estimate(Xhat) ==
            LET tau == Len(Y)
                Ahat == Arr(nStates, nStates, by, Y)
                Vhat == Arr(nStates, tau - 1, by, Y)
                Qhat == Arr(nStates, nStates, by, Y)
                initX0 == Arr(nStates, 1, by, Y)
                initM0 == Arr(nStates, 1, by, Y)
                initS0 == Arr(nStates, 1, by, Y)
                saved == SetAttr([d EXCEPT !.Rhat = PyInt(0), !.Ahat = Ahat,
                                           !.Xhat = Xhat, !.Qhat = Qhat,
                                           !.initX0 = initX0, !.initM0 = initM0,
                                           !.initS0 = initS0],
                                 "Vhat", Vhat)
            IN  {Raise(e, d) : e \in pinv(nStates, tau - 1) \ {"none"}}
                \cup (IF Xhat.rows = 1 THEN {Raise("ValueError", d)}
                      ELSE {Return(saved, None)})
    IN  UNION {IF IsNone(Xhat) THEN {Raise("ErrorDS", d)} ELSE Estimate(Xhat)
               : Xhat \in kpca(Y, nStates)}

IsLinear(cls) == cls \in {"LinearDS", "OnlineLinearDS"}
IsOnline(cls) == cls \in {"OnlineLinearDS", "OnlineNonLinearDS"}

(* Method resolution of self.suboptimalSysID. *)
suboptimalSysID(cls, d, Y) ==
    IF IsLinear(cls) THEN LinearDS_suboptimalSysID(d, Y)
    ELSE NonLinearDS_suboptimalSysID(d, Y)

----------------------------------------------------------------------------
(* Online estimators.                                                      *)

(* A faulty append that adds on the left and discards the item on the right. *)
dequeAppend_left(q, x) ==
    IF q.maxlen = 0 THEN q
    ELSE IF Len(q.items) = q.maxlen
    THEN [q EXCEPT !.items = <<x>> \o SubSeq(q.items, 1, Len(q.items) - 1)]
    ELSE [q EXCEPT !.items = <<x>> \o q.items]

(* deque.append on a bounded deque: the oldest item is discarded when the  *)
(* deque is full; a deque of maxlen 0 stays empty.                         *)
dequeAppend(q, x) ==
    IF q.maxlen = 0 THEN q
    ELSE IF Len(q.items) = q.maxlen THEN [q EXCEPT !.items = Append(Tail(q.items), x)]
    ELSE [q EXCEPT !.items = Append(q.items, x)]

(* self._buf.count(None) *)
countNone(q) == Cardinality({i \in 1..Len(q.items) : IsNone(q.items[i])})

(* A faulty hasChanged that tests the countdown against zero. *)
hasChanged_zero(d) == d.cnt.v = 0

hasChanged(d) == d.cnt.v = d.nShift.v

NoCall == [tag |-> "NoCall"]
Call(Y, err) == [tag |-> "call", Y |-> Y, err |-> err]

(* The re-estimation at the end of update: suboptimalSysID on the buffer   *)
(* as observation matrix (one column per buffered vector), then the reset  *)
(* of the countdown; an exception of the identification leaves update      *)
(* before the reset.  Each outcome carries the heap and the call made.     *)
reestimate(cls, d1, h1) ==
    LET Y == h1[d1.buf.v].items
    IN  {[out |-> IF id.err = "none"
                  THEN Return([id.d EXCEPT !.cnt = PyInt(id.d.nShift.v)], None)
                  ELSE id,
          h |-> h1, sysid |-> Call(Y, id.err)]
         : id \in suboptimalSysID(cls, d1, Y)}

(* A faulty update without the nShift == 1 case. *)
update_zeroOnly(cls, d, h, x) ==
    LET ref == d.buf.v
        h1 == [h EXCEPT ![ref] = dequeAppend(h[ref], x)]
        d1 == [d EXCEPT !.cnt = PyInt(d.cnt.v - 1)]
    IN  IF countNone(h1[ref]) > 0
        THEN {[out |-> Return(d, None), h |-> h1, sysid |-> NoCall]}
        ELSE IF d1.cnt.v = 0
        THEN reestimate(cls, d1, h1)
        ELSE {[out |-> Return(d1, None), h |-> h1, sysid |-> NoCall]}

(* A faulty update that decrements the countdown before the ramp-up test. *)
update_countFirst(cls, d, h, x) ==
    LET ref == d.buf.v
        h1 == [h EXCEPT ![ref] = dequeAppend(h[ref], x)]
        d1 == [d EXCEPT !.cnt = PyInt(d.cnt.v - 1)]
    IN  IF countNone(h1[ref]) > 0
        THEN {[out |-> Return(d1, None), h |-> h1, sysid |-> NoCall]}
        ELSE IF d1.cnt.v = 0 \/ d1.nShift.v = 1
        THEN reestimate(cls, d1, h1)
        ELSE {[out |-> Return(d1, None), h |-> h1, sysid |-> NoCall]}

(* OnlineLinearDS.update and OnlineNonLinearDS.update (same code): the set *)
(* of outcomes, each with the heap afterwards and the identification call  *)
(* made (NoCall if none).                                                  *)
update(cls, d, h, x) ==
    LET ref == d.buf.v
        h1 == [h EXCEPT ![ref] = dequeAppend(h[ref], x)]
        d1 == [d EXCEPT !.cnt = PyInt(d.cnt.v - 1)]
    IN  IF countNone(h1[ref]) > 0
        THEN {[out |-> Return(d, None), h |-> h1, sysid |-> NoCall]}
        ELSE IF d1.cnt.v = 0 \/ d1.nShift.v = 1
        THEN reestimate(cls, d1, h1)
        ELSE {[out |-> Return(d1, None), h |-> h1, sysid |-> NoCall]}

----------------------------------------------------------------------------
(* Canonical form and synthesis (LinearDS).                                *)

(* The side of the square array into which computeJCFTransform reshapes    *)
(* the least-squares solution.                                             *)
JCFDim == 5

(* LinearDS.computeJCFTransform on an A and a C of the given shapes: the   *)
(* exception raised, or "none" when the transform P is returned.           *)
computeJCFTransform(A, C) ==
    IF A.rows # A.cols THEN "ErrorDS"
    ELSE IF A.rows # C.cols THEN "ErrorDS"
    ELSE IF A.rows * A.rows # JCFDim * JCFDim THEN "ValueError"
    ELSE "none"

(* LinearDS.convertToJCF: the set of possible outcomes (np.linalg.inv      *)
(* raises on a singular P).                                                *)
convertToJCF(d) ==
    IF ~check(d) THEN {Raise("ErrorDS", d)}
    ELSE LET e == computeJCFTransform(d.Ahat, d.Chat)
             by == "convertToJCF"
             Y == d.Ahat.Y
         IN  IF e # "none" THEN {Raise(e, d)}
             ELSE {Raise("LinAlgError", d),
                   Return(SetAttr(SetAttr(SetAttr(SetAttr(d,
                              "ChatJCF", Arr(d.Chat.rows, JCFDim, by, Y)),
                              "AhatJCF", Arr(JCFDim, JCFDim, by, Y)),
                              "XhatJCF", Arr(JCFDim, d.Xhat.cols, by, Y)),
                              "initM0JCF", Arr(JCFDim, 1, by, Y)), None)}

(* A synthesis mode: None, or a string given by the set of flags in it. *)
Mode(flags) == [tag |-> "str", flags |-> flags]
Pair(a, b) == [tag |-> "tuple", I |-> a, X |-> b]

(* One pass of the loop of LinearDS.synthesize and what the call returns   *)
(* for tau > 0 frames: np.rand and np.randn do not exist, so that the      *)
(* noise terms raise; the state column, of as many entries as Xhat has     *)
(* rows, is stored in a column of nStates entries (a single entry is       *)
(* broadcast).                                                             *)
frames(d, tau, mode) ==
    LET find(c) == c \in mode.flags
        nStates == d.nStates.v
        D == d.Yavg.rows
        by == "synthesize"
        Y == d.Xhat.Y
    IN  IF ~find("s") /\ ~find("q") THEN {Raise("AttributeError", d)}
        ELSE IF find("r") THEN {Raise("AttributeError", d)}
        ELSE IF d.Xhat.rows # nStates /\ d.Xhat.rows # 1 THEN {Raise("ValueError", d)}
        ELSE {Return(d, Pair(Arr(D, tau, by, Y), Arr(nStates, tau, by, Y)))}

(* A faulty synthesis in which flag s leaves tau as given: the loop then   *)
(* reads the columns 0 .. tau - 1 of Xhat.                                 *)
synthesis_keepTau(d, tau0, mode) ==
    LET find(c) == c \in mode.flags
        tau == tau0
        Empty == Pair(Arr(d.Yavg.rows, 0, "synthesize", d.Xhat.Y),
                      Arr(d.nStates.v, 0, "synthesize", d.Xhat.Y))
        Loop == IF tau = 0 THEN {Return(d, Empty)}
                ELSE IF find("s") /\ tau > d.Xhat.cols THEN {Raise("IndexError", d)}
                ELSE frames(d, tau, mode)
    IN  IF tau < 0 THEN {Raise("ValueError", d)}
        ELSE IF ~find("q")
        THEN {Raise(e, d) : e \in svd(d.Qhat.rows, d.Qhat.cols) \ {"none"}} \cup Loop
        ELSE Loop

(* The body of LinearDS.synthesize after its two guards: the set of        *)
(* possible outcomes for a mode string.  Flag s overrides tau by the       *)
(* number of columns of Xhat; np.zeros raises on a negative tau.           *)
synthesis(d, tau0, mode) ==
    LET find(c) == c \in mode.flags
        nStates == d.nStates.v
        tau == IF find("s") THEN d.Xhat.cols ELSE tau0
        D == d.Yavg.rows
        by == "synthesize"
        Y == d.Xhat.Y
        Loop == IF tau = 0 THEN {Return(d, Pair(Arr(D, 0, by, Y), Arr(nStates, 0, by, Y)))}
                ELSE frames(d, tau, mode)
    IN  IF tau < 0 THEN {Raise("ValueError", d)}
        ELSE IF ~find("q")
        THEN {Raise(e, d) : e \in svd(d.Qhat.rows, d.Qhat.cols) \ {"none"}} \cup Loop
        ELSE Loop

(* A faulty synthesize that takes a missing mode for the empty mode. *)
synthesize_defaultMode(d, tau0, mode) ==
    IF ~d.ready.v THEN {Raise("ErrorDS", d)}
    ELSE synthesis(d, tau0, IF IsNone(mode) THEN Mode({}) ELSE mode)

(* LinearDS.synthesize: the set of possible outcomes. *)
synthesize(d, tau0, mode) ==
    IF ~d.ready.v THEN {Raise("ErrorDS", d)}
    ELSE IF IsNone(mode) THEN {Raise("ErrorDS", d)}
    ELSE synthesis(d, tau0, mode)

----------------------------------------------------------------------------
(* State-space map.                                                        *)

(* Two raveled arrays of n and m elements can be subtracted. *)
Broadcasts(n, m) == n = m \/ n = 1 \/ m = 1

(* LinearDS.stateSpaceMap(lds1, lds2), lds1 and lds2 given by their        *)
(* attribute dictionaries: the set of possible outcomes, each with the     *)
(* dictionary of the new instance lds.  copy.copy gives lds the attribute  *)
(* values of lds2, the reference to its deque included; six attributes are *)
(* then assigned anew.  The products need the shapes to agree, and the     *)
(* differences summed into err need raveled arrays that broadcast.         *)
stateSpaceMap(lds1, lds2) ==
    LET lds == lds2
        by == "stateSpaceMap"
    IN  IF "Chat" \notin DOMAIN lds1 \/ "Chat" \notin DOMAIN lds2
        THEN {Raise("AttributeError", lds)}
        ELSE IF IsNone(lds2.Chat) THEN {Raise("LinAlgError", lds)}
        ELSE IF IsNone(lds1.Chat) THEN {Raise("TypeError", lds)}
        ELSE
        LET Chat1 == lds1.Chat
            Chat2 == lds2.Chat
            Y == Chat2.Y
            r1 == Chat1.cols
            r2 == Chat2.cols
            mapped == [lds EXCEPT !.Chat = Arr(Chat2.rows, r1, by, Y),
                                  !.Ahat = Arr(r1, r1, by, Y),
                                  !.Qhat = Arr(r1, r1, by, Y),
                                  !.Rhat = lds2.Rhat,
                                  !.initM0 = Arr(r1, 1, by, Y),
                                  !.initS0 = Arr(r1, 1, by, Y)]
            fits == /\ Chat2.rows = Chat1.rows
                    /\ lds2.initS0.rows = r2
                    /\ Broadcasts(Chat2.rows * r2, Chat1.rows * r1)
                    /\ Broadcasts(r2 * r2, r1 * r1)
                    /\ Broadcasts(r2, r1)
                    /\ Broadcasts(lds2.initS0.rows, lds1.initS0.rows)
        IN  {Raise(e, lds) : e \in pinv(Chat2.rows, r2) \ {"none"}}
            \cup (IF fits THEN {Return(mapped, Opaque)} ELSE {Raise("ValueError", lds)})

----------------------------------------------------------------------------
(* State machine.  obj maps the identifiers of the constructed instances   *)
(* to their class and attribute dictionary, heap maps the references of    *)
(* the deques to their contents, pushes counts the update calls made on an *)
(* instance and last records the most recent call and its outcome.         *)

ObjIds == 1..3
Modes == {None} \cup {Mode(f) : f \in SUBSET {"s", "q", "r"}}

(* The record of a call: the operation, the instance it was made on, the  *)
(* exception raised, the value returned, the identification it ran and,    *)
(* for the constructors of the online estimators, the arguments.           *)
Called(op, o, out, sysid) ==
    [op |-> op, o |-> o, err |-> out.err, ret |-> out.ret, sysid |-> sysid, arg |-> None]

Args(bufLen, nShift) == [tag |-> "args", bufLen |-> bufLen, nShift |-> nShift]

Init ==
    /\ obj = << >>
    /\ heap = << >>
    /\ pushes = [o \in ObjIds |-> 0]
    /\ last = Called("none", 0, Return(<< >>, None), NoCall)

Constructed(o, cls, out, bufLen, nShift) ==
    /\ last' = [Called(cls, o, [out EXCEPT !.ret = IF out.err = "none" THEN PyRef(o) ELSE None],
                       NoCall)
                EXCEPT !.arg = IF IsOnline(cls) THEN Args(bufLen, nShift) ELSE None]
    /\ IF out.err = "none"
       THEN /\ obj' = obj @@ (o :> [cls |-> cls, d |-> out.d])
            /\ heap' = IF IsOnline(cls) THEN heap @@ (o :> NewDeque(bufLen)) ELSE heap
       ELSE UNCHANGED <<obj, heap>>
    /\ UNCHANGED pushes

(* The constructor calls on a free identifier, with arguments drawn from   *)
(* the given sets.  The verbose flag selects logging and timing only and   *)
(* is left off.                                                            *)
NewLinearDS(o, States, Approx) ==
    /\ o \notin DOMAIN obj
    /\ \E nStates \in States, approx \in Approx, verbose \in {FALSE} :
          Constructed(o, "LinearDS", LinearDS_init(nStates, approx, verbose), 0, 0)

NewNonLinearDS(o, States) ==
    /\ o \notin DOMAIN obj
    /\ \E nStates \in States, verbose \in {FALSE} :
          Constructed(o, "NonLinearDS", NonLinearDS_init(nStates, Opaque, verbose), 0, 0)

NewOnlineLinearDS(o, States, BufLens, Shifts, Approx) ==
    /\ o \notin DOMAIN obj
    /\ \E nStates \in States, bufLen \in BufLens, nShift \in Shifts,
          approx \in Approx, verbose \in {FALSE} :
          Constructed(o, "OnlineLinearDS",
                      OnlineLinearDS_init(nStates, bufLen, nShift, approx, verbose, o),
                      bufLen, nShift)

NewOnlineNonLinearDS(o, States, BufLens, Shifts) ==
    /\ o \notin DOMAIN obj
    /\ \E nStates \in States, bufLen \in BufLens, nShift \in Shifts, verbose \in {FALSE} :
          Constructed(o, "OnlineNonLinearDS",
                      OnlineNonLinearDS_init(nStates, Opaque, bufLen, nShift, verbose, o),
                      bufLen, nShift)

(* o.update(x), x the next observation vector, of any length up to MaxDim; *)
(* at most n calls are made on an instance.                                *)
Update(o, n) ==
    /\ o \in DOMAIN obj
    /\ IsOnline(obj[o].cls)
    /\ pushes[o] < n
    /\ \E dim \in 1..MaxDim :
       \E r \in update(obj[o].cls, obj[o].d, heap, Vec(dim, pushes[o] + 1)) :
          /\ obj' = [obj EXCEPT ![o].d = r.out.d]
          /\ heap' = r.h
          /\ last' = Called("update", o, r.out, r.sysid)
    /\ pushes' = [pushes EXCEPT ![o] = @ + 1]

(* o.hasChanged() *)
HasChanged(o) ==
    /\ o \in DOMAIN obj
    /\ IsOnline(obj[o].cls)
    /\ last' = Called("hasChanged", o, Return(obj[o].d, PyBool(hasChanged(obj[o].d))), NoCall)
    /\ UNCHANGED <<obj, heap, pushes>>

(* o.check() *)
Check(o) ==
    /\ o \in DOMAIN obj
    /\ last' = Called("check", o, Return(obj[o].d, PyBool(check(obj[o].d))), NoCall)
    /\ UNCHANGED <<obj, heap, pushes>>

(* o.suboptimalSysID(Y) called directly, Y any D x T matrix. *)
SuboptimalSysID(o) ==
    /\ o \in DOMAIN obj
    /\ \E D \in 1..MaxDim, T \in 1..MaxT :
       LET Y == [i \in 1..T |-> Vec(D, 0)]
       IN  \E out \in suboptimalSysID(obj[o].cls, obj[o].d, Y) :
              /\ obj' = [obj EXCEPT ![o].d = out.d]
              /\ last' = Called("suboptimalSysID", o, out, Call(Y, out.err))
    /\ UNCHANGED <<heap, pushes>>

(* o.convertToJCF() *)
ConvertToJCF(o) ==
    /\ o \in DOMAIN obj
    /\ IsLinear(obj[o].cls)
    /\ \E out \in convertToJCF(obj[o].d) :
          /\ obj' = [obj EXCEPT ![o].d = out.d]
          /\ last' = Called("convertToJCF", o, out, NoCall)
    /\ UNCHANGED <<heap, pushes>>

(* o.synthesize(tau, mode), for any tau up to MaxTau and any mode. *)
Synthesize(o) ==
    /\ o \in DOMAIN obj
    /\ IsLinear(obj[o].cls)
    /\ \E out \in UNION {synthesize(obj[o].d, tau, mode) : tau \in -1..MaxTau, mode \in Modes} :
          /\ obj' = [obj EXCEPT ![o].d = out.d]
          /\ last' = Called("synthesize", o, out, NoCall)
    /\ UNCHANGED <<heap, pushes>>

(* o.suboptimalSysID(Y) called directly, Y a D x T matrix with D and T     *)
(* drawn from the given sets.                                              *)
SuboptimalSysIDOf(o, Dims, Lens) ==
    /\ o \in DOMAIN obj
    /\ \E D \in Dims, T \in Lens :
       LET Y == [i \in 1..T |-> Vec(D, 0)]
       IN  \E out \in suboptimalSysID(obj[o].cls, obj[o].d, Y) :
              /\ obj' = [obj EXCEPT ![o].d = out.d]
              /\ last' = Called("suboptimalSysID", o, out, Call(Y, out.err))
    /\ UNCHANGED <<heap, pushes>>

(* The arguments of a synthesize call. *)
SynthArgs(tau, mode) == [tag |-> "args", tau |-> tau, mode |-> mode]

(* o.synthesize(tau, mode) with tau and mode drawn from the given sets,    *)
(* the arguments recorded with the call.                                   *)
SynthesizeCall(o, Taus, ModeSet) ==
    /\ o \in DOMAIN obj
    /\ IsLinear(obj[o].cls)
    /\ \E tau \in Taus, mode \in ModeSet :
       \E out \in synthesize(obj[o].d, tau, mode) :
          /\ obj' = [obj EXCEPT ![o].d = out.d]
          /\ last' = [Called("synthesize", o, out, NoCall)
                      EXCEPT !.arg = SynthArgs(tau, mode)]
    /\ UNCHANGED <<heap, pushes>>

(* One instance of any of the four classes and the calls made on it; the   *)
(* online estimators are those that re-estimate on every push or on every  *)
(* second one.                                                             *)
Next ==
    \/ NewLinearDS(1, -1..MaxStates, BOOLEAN)
    \/ NewNonLinearDS(1, 0..MaxStates)
    \/ NewOnlineLinearDS(1, 0..MaxStates, 0..MaxBufLen, 1..2, {FALSE})
    \/ NewOnlineNonLinearDS(1, 0..MaxStates, 0..MaxBufLen, 1..2)
    \/ Update(1, MaxPushes)
    \/ HasChanged(1)
    \/ Check(1)
    \/ SuboptimalSysID(1)
    \/ ConvertToJCF(1)
    \/ Synthesize(1)

Spec == Init /\ [][Next]_vars

(* One online estimator, fed a longer stream of observations and queried   *)
(* in between.                                                             *)
NextOnline ==
    \/ NewOnlineLinearDS(1, -1..MaxStates, -1..MaxBufLen, -1..MaxShift, BOOLEAN)
    \/ NewOnlineNonLinearDS(1, 0..MaxStates, -1..MaxBufLen, -1..MaxShift)
    \/ Update(1, MaxOnlinePushes)
    \/ HasChanged(1)

SpecOnline == Init /\ [][NextOnline]_vars

----------------------------------------------------------------------------
(* Properties of the online estimators.                                    *)

OnlineClasses == {"OnlineLinearDS", "OnlineNonLinearDS"}

(* The step is an update call on instance o. *)
UpdateStep(o) == o \in DOMAIN obj /\ IsOnline(obj[o].cls) /\ pushes'[o] = pushes[o] + 1

(* The deque of instance o. *)
Buf(o) == heap[obj[o].d.buf.v]

(* The call recorded in last ran an identification, which returned. *)
Identified == last.sysid.tag = "call" /\ last.sysid.err = "none"

(* C1: a push that leaves an empty slot in the buffer runs no              *)
(* identification and leaves the countdown alone; a push that leaves none  *)
(* decrements the countdown by one, runs suboptimalSysID if and only if    *)
(* the decremented countdown is 0 or nShift is 1, and resets the countdown *)
(* to nShift only when that identification returned.                       *)
C1_UpdateSchedule ==
    [][\A o \in ObjIds : UpdateStep(o) =>
          LET d == obj[o].d
              dec == d.cnt.v - 1
          IN  IF countNone(Buf(o)') > 0
              THEN last'.sysid = NoCall /\ obj'[o].d.cnt.v = d.cnt.v
              ELSE /\ (last'.sysid.tag = "call") <=> (dec = 0 \/ d.nShift.v = 1)
                   /\ obj'[o].d.cnt.v = IF Identified' THEN d.nShift.v ELSE dec]_vars

(* A full buffer, nShift = 3, and an update that has just identified. *)
C1_Witness ==
    /\ 1 \in DOMAIN obj
    /\ obj[1].d.nShift.v = 3
    /\ last.op = "update"
    /\ Identified
    /\ obj[1].d.cnt.v = 3
    /\ pushes[1] > Buf(1).maxlen + 3

(* C2: after an update hasChanged() is true if and only if that update     *)
(* ran an identification that returned (and so reset the countdown); it is *)
(* false on a new estimator and after a push that leaves an empty slot;    *)
(* the call returns that value and changes nothing.                        *)
C2_HasChanged ==
    [][\A o \in ObjIds :
          /\ UpdateStep(o) =>
                /\ hasChanged(obj'[o].d) <=> Identified'
                /\ countNone(Buf(o)') > 0 => ~hasChanged(obj'[o].d)
          /\ (o \notin DOMAIN obj /\ o \in DOMAIN obj' /\ IsOnline(obj'[o].cls)) =>
                ~hasChanged(obj'[o].d)
          /\ (last'.op = "hasChanged" /\ last'.o = o) =>
                /\ last'.ret = PyBool(hasChanged(obj[o].d))
                /\ UNCHANGED <<obj, heap, pushes>>]_vars

(* hasChanged() has returned true right after an identifying update. *)
C2_Witness ==
    /\ last.op = "hasChanged"
    /\ last.ret = PyBool(TRUE)
    /\ obj[1].d.nShift.v = 2
    /\ pushes[1] > Buf(1).maxlen

(* C3: an update that leaves an empty slot in the buffer changes the       *)
(* buffer only: no attribute of the instance changes, the countdown is     *)
(* still nShift - 1, no identification runs and hasChanged() is false.     *)
C3_RampUp ==
    [][\A o \in ObjIds : (UpdateStep(o) /\ countNone(Buf(o)') > 0) =>
          /\ obj'[o] = obj[o]
          /\ obj'[o].d.cnt.v = obj'[o].d.nShift.v - 1
          /\ last'.sysid = NoCall
          /\ last'.err = "none"
          /\ ~hasChanged(obj'[o].d)]_vars

(* One push into a buffer of two slots. *)
C3_Witness ==
    /\ 1 \in DOMAIN obj
    /\ last.op = "update"
    /\ Buf(1).maxlen = 2
    /\ pushes[1] = 1
    /\ countNone(Buf(1)) = 1

(* The i-th slot of a buffer of bufLen slots after n pushes: the pushes    *)
(* are numbered from 1 and the vector of push j carries v = j.             *)
SlotHolds(slot, i, bufLen, n) ==
    IF i <= bufLen - Min(n, bufLen) THEN IsNone(slot)
    ELSE slot.tag = "vec" /\ slot.v = n - bufLen + i

(* C4: after n pushes the buffer has bufLen slots, holding the last        *)
(* min(n, bufLen) pushed vectors in arrival order behind the empty slots;  *)
(* an identification run by update received the last bufLen pushed         *)
(* vectors, in arrival order, as the columns of its observation matrix.    *)
C4_Window ==
    \A o \in DOMAIN obj : IsOnline(obj[o].cls) =>
        LET q == Buf(o)
            bufLen == q.maxlen
        IN  /\ Len(q.items) = bufLen
            /\ \A i \in 1..bufLen : SlotHolds(q.items[i], i, bufLen, pushes[o])
            /\ (last.op = "update" /\ last.o = o /\ last.sysid.tag = "call") =>
                  /\ Len(last.sysid.Y) = bufLen
                  /\ \A i \in 1..bufLen :
                        /\ last.sysid.Y[i].tag = "vec"
                        /\ last.sysid.Y[i].v = pushes[o] - bufLen + i

(* An identification on the fifth push into a buffer of two slots. *)
C4_Witness ==
    /\ 1 \in DOMAIN obj
    /\ Buf(1).maxlen = 2
    /\ pushes[1] = 5
    /\ last.op = "update"
    /\ Identified

(* C9: every constructed online estimator has nShift >= 1; right after its *)
(* construction the countdown is nShift - 1 and the buffer has bufLen      *)
(* slots, all empty; a construction with nShift = 0 raises and leaves no   *)
(* instance.                                                               *)
C9_Construction ==
    /\ \A o \in DOMAIN obj : IsOnline(obj[o].cls) => obj[o].d.nShift.v >= 1
    /\ (last.op \in OnlineClasses /\ last.err = "none") =>
          /\ last.o \in DOMAIN obj
          /\ obj[last.o].d.nShift.v = last.arg.nShift
          /\ obj[last.o].d.cnt.v = last.arg.nShift - 1
          /\ Len(Buf(last.o).items) = last.arg.bufLen
          /\ countNone(Buf(last.o)) = last.arg.bufLen
    /\ (last.op \in OnlineClasses /\ last.arg.nShift = 0) =>
          /\ last.err # "none"
          /\ last.o \notin DOMAIN obj

----------------------------------------------------------------------------
(* Properties of the model entity.                                         *)

LinearFields == {"Ahat", "Chat", "Qhat", "Rhat", "Xhat", "Yavg", "initM0", "initS0"}
NonLinearFields == {"Ahat", "Rhat", "Qhat", "Xhat", "initX0", "initM0", "initS0"}

Populated(d) == \A key \in LinearFields : ~IsNone(d[key])

(* C5: on every LinearDS (online or not) the ready flag is true if and     *)
(* only if the eight numeric fields are all populated, check() returns the *)
(* value of the flag, and a ready model holds the estimates of an          *)
(* identification.                                                         *)
C5_Ready ==
    \A o \in DOMAIN obj : IsLinear(obj[o].cls) =>
        LET d == obj[o].d
        IN  /\ d.ready.v <=> Populated(d)
            /\ check(d) = d.ready.v
            /\ (last.op = "check" /\ last.o = o) => last.ret = PyBool(d.ready.v)
            /\ d.ready.v => \A key \in LinearFields : d[key].by = "suboptimalSysID"

(* check() has returned true on an online estimator that update has        *)
(* identified.                                                             *)
C5_Witness ==
    /\ 1 \in DOMAIN obj
    /\ obj[1].cls = "OnlineLinearDS"
    /\ last.op = "check"
    /\ last.ret = PyBool(TRUE)
    /\ pushes[1] > 0

(* The attributes of an instance other than the countdown. *)
Parameters(d) == [key \in DOMAIN d \ {"cnt"} |-> d[key]]

(* The numeric fields are all unset, or all set from one observation       *)
(* matrix.                                                                 *)
AllOrNothing(cls, d) ==
    IF IsLinear(cls)
    THEN \/ \A key \in LinearFields : IsNone(d[key])
         \/ \A key \in LinearFields : ~IsNone(d[key]) /\ d[key].Y = d.Xhat.Y
    ELSE \/ "Vhat" \notin DOMAIN d /\ \A key \in NonLinearFields : IsNone(d[key])
         \/ /\ "Vhat" \in DOMAIN d
            /\ \A key \in NonLinearFields \ {"Rhat"} : ~IsNone(d[key]) /\ d[key].Y = d.Vhat.Y
            /\ ~IsNone(d.Rhat)

(* C6: a suboptimalSysID call that raises, made directly or by update,     *)
(* leaves every numeric field and the ready flag of the instance as they   *)
(* were, and in every state the numeric fields of an instance are all      *)
(* unset or all set from the same observation matrix.                      *)
C6_AllOrNothing ==
    [][\A o \in DOMAIN obj' :
          /\ AllOrNothing(obj'[o].cls, obj'[o].d)
          /\ (/\ last'.o = o
              /\ last'.op \in {"update", "suboptimalSysID"}
              /\ last'.sysid.tag = "call"
              /\ last'.sysid.err # "none") =>
                /\ o \in DOMAIN obj
                /\ Parameters(obj'[o].d) = Parameters(obj[o].d)]_vars

(* An identification run by update has raised on a model that an earlier   *)
(* identification had populated.                                           *)
C6_Witness ==
    /\ 1 \in DOMAIN obj
    /\ last.op = "update"
    /\ last.sysid.tag = "call"
    /\ last.sysid.err # "none"
    /\ ~IsNone(obj[1].d.Ahat)

(* C7: the matrix fields of a LinearDS of state order k are all unset, or  *)
(* A is k x k, C has k columns, X has k rows and Q is k x k.               *)
C7_Shapes ==
    \A o \in DOMAIN obj : IsLinear(obj[o].cls) =>
        LET d == obj[o].d
            k == d.nStates.v
        IN  \/ \A key \in {"Ahat", "Chat", "Xhat", "Qhat"} : IsNone(d[key])
            \/ /\ \A key \in {"Ahat", "Chat", "Xhat", "Qhat"} : ~IsNone(d[key])
               /\ d.Ahat.rows = k /\ d.Ahat.cols = k
               /\ d.Chat.cols = k
               /\ d.Xhat.rows = k
               /\ d.Qhat.rows = k /\ d.Qhat.cols = k

(* C10: on a model that is not ready synthesize raises for every tau and   *)
(* every mode, and on a ready model it raises for mode None; in both cases *)
(* it returns nothing and leaves every attribute of the model as it was.   *)
C10_SynthesizeGuards ==
    \A o \in DOMAIN obj : IsLinear(obj[o].cls) =>
        LET d == obj[o].d
        IN  /\ \A tau \in -1..MaxTau, mode \in Modes :
                  (~d.ready.v \/ IsNone(mode)) =>
                      \A out \in synthesize(d, tau, mode) :
                          out.err = "ErrorDS" /\ IsNone(out.ret) /\ out.d = d
            /\ (last.op = "synthesize" /\ last.o = o /\ ~d.ready.v) =>
                  last.err = "ErrorDS" /\ IsNone(last.ret)

(* synthesize has raised ErrorDS on a ready model: mode was None. *)
C10_Witness ==
    /\ 1 \in DOMAIN obj
    /\ obj[1].d.ready.v
    /\ last.op = "synthesize"
    /\ last.err = "ErrorDS"

----------------------------------------------------------------------------
(* Two instances and the state-space map of one into the other.            *)

(* (o3, err) = LinearDS.stateSpaceMap(o1, o2) *)
StateSpaceMap(o1, o2, o3) ==
    /\ o1 \in DOMAIN obj
    /\ o2 \in DOMAIN obj
    /\ o3 \notin DOMAIN obj
    /\ \E out \in stateSpaceMap(obj[o1].d, obj[o2].d) :
          /\ last' = Called("stateSpaceMap", o3, out, NoCall)
          /\ obj' = IF out.err = "none"
                    THEN obj @@ (o3 :> [cls |-> obj[o2].cls, d |-> out.d])
                    ELSE obj
    /\ UNCHANGED <<heap, pushes>>

(* A LinearDS 1, an online estimator 2, the instance 3 that stateSpaceMap  *)
(* returns for them, and the calls made on the three.                      *)
NextMap ==
    \/ NewLinearDS(1, 1..MaxStates, {FALSE})
    \/ NewOnlineLinearDS(2, 1..MaxStates, 1..MaxBufLen, 1..2, {FALSE})
    \/ SuboptimalSysID(1)
    \/ Update(2, MaxPushes)
    \/ StateSpaceMap(1, 2, 3)
    \/ Update(3, MaxPushes)
    \/ SuboptimalSysID(3)
    \/ ConvertToJCF(3)

SpecMap == Init /\ [][NextMap]_vars

(* The attributes of instance o and the contents of its buffer. *)
View(o) ==
    [d |-> obj[o].d,
     buf |-> IF "buf" \in DOMAIN obj[o].d THEN heap[obj[o].d.buf.v].items ELSE << >>]

(* C8: instances share no mutable state: a call changes no attribute and   *)
(* no buffer slot of an instance other than the one it is made on, and     *)
(* stateSpaceMap changes neither of its operands.                          *)
C8_NoSharedState ==
    [][\A o \in DOMAIN obj : last'.o # o => View(o)' = View(o)]_vars

----------------------------------------------------------------------------
(* Synthesis from a model of state order 5.                                *)

(* The state order of the models of the tests and the default number of    *)
(* frames of synthesize.                                                   *)
StateOrder == 5
DefaultTau == 50

(* A LinearDS of state order 5, identified from D x T matrices with more   *)
(* columns than states and with fewer, as many and more rows than states,  *)
(* and the calls made on it.                                               *)
NextSynth ==
    \/ NewLinearDS(1, {StateOrder}, BOOLEAN)
    \/ SuboptimalSysIDOf(1, 1..(StateOrder + MaxDim),
                            (StateOrder + 1)..(StateOrder + MaxT))
    \/ Check(1)
    \/ ConvertToJCF(1)
    \/ SynthesizeCall(1, {0, DefaultTau}, Modes)

SpecSynth == Init /\ [][NextSynth]_vars

(* The last call is synthesize(50, "sq") on a ready model o of state order *)
(* 5 that was identified from a matrix of more than 5 columns.             *)
Synthesized50(o) ==
    /\ o \in DOMAIN obj
    /\ last.op = "synthesize"
    /\ last.o = o
    /\ last.arg = SynthArgs(DefaultTau, Mode({"s", "q"}))
    /\ obj[o].d.ready.v
    /\ obj[o].d.nStates.v = StateOrder
    /\ Len(obj[o].d.Xhat.Y) > StateOrder

(* C11 as stated: synthesize with tau = 50 and mode "sq" on a ready model  *)
(* of state order 5 identified from a D x T matrix, T >= 6, returns an     *)
(* observation matrix of D rows and 50 columns and a state matrix of 50    *)
(* columns.                                                                *)
C11_Synthesize50 ==
    \A o \in DOMAIN obj : Synthesized50(o) =>
        /\ last.err = "none"
        /\ last.ret.I.rows = obj[o].d.Xhat.Y[1].d
        /\ last.ret.I.cols = DefaultTau
        /\ last.ret.X.cols = DefaultTau

(* C11 amended: flag s of mode "sq" overrides tau, so that the call        *)
(* returns an observation matrix of D rows and T columns and a state       *)
(* matrix of T columns; it returns when D >= 5 or D = 1 and raises         *)
(* ValueError for the other D, for which the model has fewer than 5 states.*)
C11_SynthesizeTrajectory ==
    \A o \in DOMAIN obj : Synthesized50(o) =>
        LET Y == obj[o].d.Xhat.Y
            D == Y[1].d
        IN  IF D >= StateOrder \/ D = 1
            THEN /\ last.err = "none"
                 /\ last.ret.I.rows = D
                 /\ last.ret.I.cols = Len(Y)
                 /\ last.ret.X.cols = Len(Y)
            ELSE last.err = "ValueError"

(* synthesize(50, "sq") has returned for a model identified from a matrix  *)
(* of at least 5 rows and of 6 columns.                                    *)
C11_Witness ==
    /\ Synthesized50(1)
    /\ obj[1].d.Xhat.Y[1].d >= StateOrder
    /\ Len(obj[1].d.Xhat.Y) = StateOrder + 1
    /\ last.err = "none"

----------------------------------------------------------------------------
(* Canonical form.                                                         *)

(* C12: for every state dimension N >= 1, every N x N matrix A and every   *)
(* D x N matrix C, computeJCFTransform(A, C) returns the N x N transform   *)
(* without raising: on every populated linear model with at least one     *)
(* state (its A is square and has as many columns as its C) the transform  *)
(* is computed, and a convertToJCF call on it raises neither the shape     *)
(* error nor a reshape error.                                              *)
C12_JCFTransformAnyN ==
    \A o \in DOMAIN obj :
        (IsLinear(obj[o].cls) /\ check(obj[o].d) /\ obj[o].d.Ahat.rows >= 1) =>
            /\ computeJCFTransform(obj[o].d.Ahat, obj[o].d.Chat) = "none"
            /\ (last.op = "convertToJCF" /\ last.o = o) =>
                   last.err \notin {"ErrorDS", "ValueError"}

----------------------------------------------------------------------------
(* Real Jordan form (LinearDS.computeRJF).  Numbers are exact: a complex   *)
(* number has integer real and imaginary parts.                            *)

Cx(re, im) == [re |-> re, im |-> im]
CxAdd(x, y) == Cx(x.re + y.re, x.im + y.im)
CxMul(x, y) == Cx(x.re * y.re - x.im * y.im, x.re * y.im + x.im * y.re)
CxConj(x) == Cx(x.re, -x.im)
Abs(i) == IF i < 0 THEN -i ELSE i

(* np.argsort(keys) with the default kind (quicksort, which is not         *)
(* stable): the index arrays that sort the keys, equal keys in any order.  *)
argsort(keys) ==
    {p \in Permutations(1..Len(keys)) :
        \A i, j \in 1..Len(keys) : i < j => keys[p[i]] <= keys[p[j]]}

(* The positions of iR, in ascending order, whose element is 1             *)
(* (np.where(iR==1)[0]).                                                   *)
WhereOne(iR) ==
    LET RECURSIVE From(_)
        From(i) == IF i > Len(iR) THEN << >>
                   ELSE IF iR[i] = 1 THEN <<i>> \o From(i + 1)
                   ELSE From(i + 1)
    IN  From(1)

(* The ordering of the eigenpairs: the arrangements (src[i] is the index   *)
(* in eVals of the eigenpair placed at position i, iR[i] its real flag)    *)
(* after the sort by absolute imaginary part and the descending sort of    *)
(* the real eigenvalues into the first positions.                          *)
rjfOrder(eVals) ==
    LET N == Len(eVals)
    IN  UNION {
          LET P == [i \in 1..N |-> eVals[idx[i]]]
              iR == [i \in 1..N |-> IF P[i].im = 0 THEN 1 ELSE 0]
              w == WhereOne(iR)
              n == Len(w)
          IN  {[src |-> [i \in 1..N |-> IF i <= n THEN idx[w[idx2[n + 1 - i]]] ELSE idx[i]],
                iR |-> [i \in 1..N |-> IF i <= n THEN iR[idx2[n + 1 - i]] ELSE iR[i]]]
               : idx2 \in argsort([i \in 1..n |-> P[w[i]].re])}
          : idx \in argsort([i \in 1..N |-> Abs(eVals[i].im)])}

(* The block-building loop on the eigenvalues P in their final order and   *)
(* the real flags iR (positions count from 1, so that the loop ends with   *)
(* cnt = N + 1): J, the indicator X, the positions visited and the final   *)
(* position.  A block that starts in the last column raises when its       *)
(* second column is written.                                               *)
rjfWalk(P, iR) ==
    LET N == Len(P)
        RECURSIVE Walk(_, _, _, _)
        Walk(cnt, J, X, steps) ==
            IF cnt > N THEN [err |-> "none", J |-> J, X |-> X, steps |-> steps, cnt |-> cnt]
            ELSE IF iR[cnt] = 1
            THEN Walk(cnt + 1, [J EXCEPT ![cnt][cnt] = P[cnt].re], [X EXCEPT ![cnt] = 1],
                      Append(steps, [at |-> cnt, real |-> TRUE]))
            ELSE IF cnt + 1 > N
            THEN [err |-> "IndexError", J |-> J, X |-> X,
                  steps |-> Append(steps, [at |-> cnt, real |-> FALSE]), cnt |-> cnt]
            ELSE Walk(cnt + 2,
                      [J EXCEPT ![cnt][cnt] = P[cnt].re, ![cnt][cnt + 1] = P[cnt].im,
                                ![cnt + 1][cnt] = -P[cnt].im, ![cnt + 1][cnt + 1] = P[cnt].re],
                      [X EXCEPT ![cnt] = 1, ![cnt + 1] = 0],
                      Append(steps, [at |-> cnt, real |-> FALSE]))
    IN  Walk(1, [i \in 1..N |-> [j \in 1..N |-> 0]], [i \in 1..N |-> 0], << >>)

(* The ordering and the block-building of computeRJF on the eigenvalues    *)
(* that eig returned: for each arrangement the sort may produce, the       *)
(* arrangement, the eigenvalues P in that order and the result of the loop.*)
rjfBlocks(eVals) ==
    {LET P == [i \in 1..Len(eVals) |-> eVals[a.src[i]]]
     IN  [src |-> a.src, iR |-> a.iR, P |-> P, walk |-> rjfWalk(P, a.iR)]
     : a \in rjfOrder(eVals)}

(* Sums and products of sequences of integers and of complex numbers. *)
RECURSIVE SumSeq(_)
SumSeq(seq) == IF seq = << >> THEN 0 ELSE Head(seq) + SumSeq(Tail(seq))

RECURSIVE CxSum(_)
CxSum(seq) == IF seq = << >> THEN Cx(0, 0) ELSE CxAdd(Head(seq), CxSum(Tail(seq)))

RECURSIVE CxProd(_)
CxProd(seq) == IF seq = << >> THEN Cx(1, 0) ELSE CxMul(Head(seq), CxProd(Tail(seq)))

(* A matrix is the sequence of its rows; M * N for integer matrices. *)
MatMul(M, N) ==
    [i \in 1..Len(M) |-> [j \in 1..Len(N[1]) |->
        SumSeq([k \in 1..Len(N) |-> M[i][k] * N[k][j]])]]

(* The determinant of the square complex matrix whose columns are cols. *)
CxDet(cols) ==
    LET n == Len(cols)
        Sign(p) == IF Cardinality({ij \in (1..n) \X (1..n) :
                                     ij[1] < ij[2] /\ p[ij[1]] > p[ij[2]]}) % 2 = 0
                   THEN Cx(1, 0) ELSE Cx(-1, 0)
        Term(p) == CxMul(Sign(p), CxProd([i \in 1..n |-> cols[i][p[i]]]))
        RECURSIVE Over(_)
        Over(ps) == IF ps = {} THEN Cx(0, 0)
                    ELSE LET p == CHOOSE q \in ps : TRUE
                         IN  CxAdd(Term(p), Over(ps \ {p}))
    IN  Over(Permutations(1..n))

(* The entries of the matrices, the eigenvalues and the entries of the     *)
(* eigenvectors that are considered.                                       *)
Entries == -1..MaxEntry
EigenValues == {Cx(a, b) : a \in (-2 * MaxEntry)..(2 * MaxEntry), b \in (-MaxEntry)..MaxEntry}
Coordinates == {Cx(a, b) : a \in -1..1, b \in -1..1}

(* v is an eigenvector of the square integer matrix A for the eigenvalue l. *)
IsEigenpair(A, l, v) ==
    /\ \E i \in 1..Len(v) : v[i] # Cx(0, 0)
    /\ \A i \in 1..Len(A) :
          CxSum([k \in 1..Len(A) |-> CxMul(Cx(A[i][k], 0), v[k])]) = CxMul(l, v[i])

(* The k-th power of the square matrix A, k >= 1. *)
RECURSIVE MatPow(_, _)
MatPow(A, k) == IF k = 1 THEN A ELSE MatMul(A, MatPow(A, k - 1))

RECURSIVE CxPow(_, _)
CxPow(x, k) == IF k = 0 THEN Cx(1, 0) ELSE CxMul(x, CxPow(x, k - 1))

(* np.linalg.eig(A) for a square integer matrix A: the eigenvalues (with   *)
(* their multiplicities, in any order: their power sums are the traces of  *)
(* the powers of A) and an eigenvector for each, given up to its scale;    *)
(* the eigenvector of a real eigenvalue is real, those of two conjugate    *)
(* eigenvalues are conjugate, and the eigenvectors are independent unless  *)
(* A has no basis of eigenvectors.  The set is empty for a matrix whose    *)
(* eigenvalues or eigenvectors are not among those considered.             *)
eig(A) ==
    LET N == Len(A)
        Spectra == {w \in [1..N -> EigenValues] :
                      \A k \in 1..N :
                          CxSum([i \in 1..N |-> CxPow(w[i], k)])
                              = Cx(SumSeq([i \in 1..N |-> MatPow(A, k)[i][i]]), 0)}
        Vectors(l) == {v \in [1..N -> Coordinates] :
                         /\ IsEigenpair(A, l, v)
                         /\ l.im = 0 => \A i \in 1..N : v[i].im = 0}
        All == UNION {{[eVals |-> w, eVecs |-> V] :
                         V \in {U \in [1..N -> UNION {Vectors(w[i]) : i \in 1..N}] :
                                  /\ \A i \in 1..N : IsEigenpair(A, w[i], U[i])
                                  /\ \A i, j \in 1..N :
                                        (w[i].im # 0 /\ w[j] = CxConj(w[i])) =>
                                            U[j] = [k \in 1..N |-> CxConj(U[i][k])]}}
                      : w \in Spectra}
        Independent == {e \in All : CxDet(e.eVecs) # Cx(0, 0)}
    IN  IF Independent # {} THEN Independent ELSE All

(* The columns of Q that the loop builds from the eigenvectors V (in the   *)
(* order eig returned them) for an arrangement b: a column is given by its *)
(* integer numerators and their common denominator.  A real eigenvector is *)
(* divided by its first coordinate; a zero denominator stands for the      *)
(* resulting inf and nan entries.                                          *)
rjfColumns(V, b) ==
    LET N == Len(V)
        Re(v) == [i \in 1..N |-> v[i].re]
        Im(v) == [i \in 1..N |-> v[i].im]
        Step(j) == CHOOSE s \in {b.walk.steps[k] : k \in 1..Len(b.walk.steps)} :
                      s.at = j \/ (~s.real /\ s.at = j - 1)
    IN  [j \in 1..N |->
            LET s == Step(j)
                v == V[b.src[s.at]]
            IN  IF s.real THEN [num |-> Re(v), den |-> v[1].re]
                ELSE IF s.at = j THEN [num |-> Re(v), den |-> 1]
                ELSE [num |-> Im(v), den |-> 1]]

(* np.linalg.inv(Q): it raises on a singular matrix; what it does with a   *)
(* matrix that has inf or nan entries is not specified (it raises or       *)
(* returns nan), and a matrix that is singular only up to rounding is      *)
(* inverted with error.                                                    *)
inv(Q) ==
    IF \E j \in 1..Len(Q) : Q[j].den = 0 THEN {"LinAlgError", "nan"}
    ELSE IF CxDet([j \in 1..Len(Q) |-> [i \in 1..Len(Q) |-> Cx(Q[j].num[i], 0)]]) = Cx(0, 0)
    THEN {"LinAlgError", "inexact"}
    ELSE {"inverse"}

(* LinearDS.computeRJF(A): the set of possible outcomes; the value         *)
(* returned is (J, inv(Q), X), of which Q is kept with the kind of its     *)
(* inverse.                                                                *)
computeRJF(A) ==
    IF Len(A) # Len(A[1]) THEN {[err |-> "ErrorDS", ret |-> None]}
    ELSE UNION {UNION {
            IF b.walk.err # "none" THEN {[err |-> b.walk.err, ret |-> None]}
            ELSE LET Q == rjfColumns(e.eVecs, b)
                 IN  {IF T = "LinAlgError" THEN [err |-> T, ret |-> None]
                      ELSE [err |-> "none",
                            ret |-> [tag |-> "tuple", J |-> b.walk.J, Q |-> Q, T |-> T,
                                     X |-> b.walk.X]]
                      : T \in inv(Q)}
            : b \in rjfBlocks(e.eVals)}
         : e \in eig(A)}

(* The matrices computeRJF is applied to: every shape up to MaxSide x      *)
(* MaxSide, the square ones with their eigen-decomposition among those     *)
(* considered.                                                             *)
Matrices ==
    {A \in UNION {[1..r -> [1..c -> Entries]] : r \in 1..MaxSide, c \in 1..MaxSide} :
        Len(A) = Len(A[1]) => eig(A) # {}}

MatrixArg(A) == [tag |-> "matrix", A |-> A]

InitRJF ==
    /\ obj = << >>
    /\ heap = << >>
    /\ pushes = [o \in ObjIds |-> 0]
    /\ \E A \in Matrices :
          last = [Called("input", 0, Return(<< >>, None), NoCall) EXCEPT !.arg = MatrixArg(A)]

(* J, T, X = LinearDS.computeRJF(A) *)
ComputeRJF ==
    /\ last.op = "input"
    /\ last.arg.tag = "matrix"
    /\ \E out \in computeRJF(last.arg.A) :
          last' = [last EXCEPT !.op = "computeRJF", !.err = out.err, !.ret = out.ret]
    /\ UNCHANGED <<obj, heap, pushes>>

SpecRJF == InitRJF /\ [][ComputeRJF]_vars

(* Q (columns with denominators) as an integer matrix with every column    *)
(* scaled by the product of the other columns' denominators.               *)
Scaled(Q) ==
    LET D == CxProd([j \in 1..Len(Q) |-> Cx(Q[j].den, 0)]).re
    IN  [i \in 1..Len(Q) |-> [j \in 1..Len(Q) |-> Q[j].num[i] * (D \div Q[j].den)]]

(* J = T * A * inverse(T) for T the exact inverse of a finite, invertible Q. *)
IsSimilarity(A, r) ==
    /\ r.T = "inverse"
    /\ MatMul(A, Scaled(r.Q)) = MatMul(Scaled(r.Q), r.J)

(* C13: for every square real matrix A, computeRJF(A) returns (J, T, X)    *)
(* with J equal to T * A * inverse(T).                                     *)
C13_RJFSimilarity ==
    (last.op = "computeRJF" /\ Len(last.arg.A) = Len(last.arg.A[1])) =>
        (last.err = "none" /\ IsSimilarity(last.arg.A, last.ret))

----------------------------------------------------------------------------
(* The two online estimators side by side.                                 *)

(* An OnlineLinearDS (instance 1) and an OnlineNonLinearDS (instance 2),   *)
(* each fed its own stream of observations and queried in between.         *)
NextPair ==
    \/ NewOnlineLinearDS(1, 1..MaxStates, 1..MaxBufLen, 1..MaxShift, {FALSE})
    \/ NewOnlineNonLinearDS(2, 1..MaxStates, 1..MaxBufLen, 1..MaxShift)
    \/ Update(1, MaxBufLen + MaxShift)
    \/ Update(2, MaxBufLen + MaxShift)
    \/ HasChanged(1)
    \/ HasChanged(2)

SpecPair == Init /\ [][NextPair]_vars

(* The slots of the deque that hold an observation. *)
Filled(q) == {i \in 1..Len(q.items) : ~IsNone(q.items[i])}

(* The step is an update of instance 2 that follows an update of instance  *)
(* 1 and brings both to the same number of pushes, the two constructed     *)
(* with the same bufLen and nShift.                                        *)
CaughtUp ==
    /\ 1 \in DOMAIN obj
    /\ UpdateStep(2)
    /\ last.op = "update"
    /\ last.o = 1
    /\ pushes'[2] = pushes[1]
    /\ Buf(1).maxlen = Buf(2).maxlen
    /\ obj[1].d.nShift = obj[2].d.nShift

(* C14: an OnlineNonLinearDS and an OnlineLinearDS constructed with the    *)
(* same bufLen and nShift and fed the same number of pushes agree after    *)
(* every update on the filled buffer slots, the countdown, hasChanged(),   *)
(* whether the update ran identification, and the ready flag.              *)
C14_SamePattern ==
    [][CaughtUp =>
          /\ Filled(Buf(1)') = Filled(Buf(2)')
          /\ obj'[1].d.cnt = obj'[2].d.cnt
          /\ hasChanged(obj'[1].d) = hasChanged(obj'[2].d)
          /\ (last.sysid.tag = "call") <=> (last'.sysid.tag = "call")
          /\ obj'[1].d.ready = obj'[2].d.ready]_vars

----------------------------------------------------------------------------
(* The countdown of the online estimators.                                 *)

(* C15: between update calls the countdown of every constructed online     *)
(* estimator satisfies 0 <= cnt <= nShift, and 1 <= cnt <= nShift whenever *)
(* the buffer has no empty slot; right after an update that ran            *)
(* identification the countdown equals nShift.                             *)
C15_CountdownRange ==
    \A o \in DOMAIN obj : IsOnline(obj[o].cls) =>
        LET d == obj[o].d
        IN  /\ 0 <= d.cnt.v /\ d.cnt.v <= d.nShift.v
            /\ countNone(Buf(o)) = 0 => 1 <= d.cnt.v
            /\ (last.op = "update" /\ last.o = o /\ last.sysid.tag = "call") =>
                  d.cnt.v = d.nShift.v

----------------------------------------------------------------------------
(* The ordering and block-building of computeRJF on given eigenvalues.     *)

(* The eigenvalue arrays of real matrices with up to MaxEigs rows, as eig  *)
(* returns them: a non-real eigenvalue with positive imaginary part is     *)
(* directly followed by its conjugate.                                     *)
EigenArrays ==
    {w \in UNION {[1..n -> EigenValues] : n \in 1..MaxEigs} :
        \A i \in 1..Len(w) :
            /\ w[i].im > 0 => (i < Len(w) /\ w[i + 1] = CxConj(w[i]))
            /\ w[i].im < 0 => (i > 1 /\ w[i - 1] = CxConj(w[i]))}

EigenArg(w) == [tag |-> "eVals", eVals |-> w]

InitEigen ==
    /\ obj = << >>
    /\ heap = << >>
    /\ pushes = [o \in ObjIds |-> 0]
    /\ \E w \in EigenArrays :
          last = [Called("input", 0, Return(<< >>, None), NoCall) EXCEPT !.arg = EigenArg(w)]

(* The sorting and the loop of computeRJF, applied to the eigenvalues. *)
ArrangeBlocks ==
    /\ last.op = "input"
    /\ last.arg.tag = "eVals"
    /\ \E b \in rjfBlocks(last.arg.eVals) :
          last' = [last EXCEPT !.op = "rjfBlocks", !.err = b.walk.err,
                               !.ret = [tag |-> "blocks", P |-> b.P, iR |-> b.iR,
                                        walk |-> b.walk]]
    /\ UNCHANGED <<obj, heap, pushes>>

SpecEigen == InitEigen /\ [][ArrangeBlocks]_vars

(* The eigenvalues that the blocks of J hold, by block: the diagonal entry *)
(* of a 1 x 1 block, the two eigenvalues of a 2 x 2 block.                 *)
Placed(walk) ==
    LET RECURSIVE From(_)
        From(k) ==
            IF k > Len(walk.steps) THEN << >>
            ELSE LET at == walk.steps[k].at
                 IN  IF walk.steps[k].real THEN <<Cx(walk.J[at][at], 0)>> \o From(k + 1)
                     ELSE <<Cx(walk.J[at][at], walk.J[at][at + 1]),
                            Cx(walk.J[at + 1][at + 1], walk.J[at + 1][at])>> \o From(k + 1)
    IN  From(1)

(* The number of occurrences of x in the sequence. *)
Count(seq, x) == Cardinality({i \in 1..Len(seq) : seq[i] = x})

(* C16: for every multiset of N eigenvalues closed under conjugation and   *)
(* every tie-breaking of the sort, the loop finds each non-real eigenvalue *)
(* directly followed by its own conjugate, stays within the N columns,     *)
(* ends at position N (N + 1 counting from 1), and places every eigenvalue *)
(* in J, with indicator 1 for a real one and (1, 0) for a pair.            *)
C16_ConjugatePairs ==
    last.op = "rjfBlocks" =>
        LET walk == last.ret.walk
            P == last.ret.P
            N == Len(P)
        IN  /\ walk.err = "none"
            /\ walk.cnt = N + 1
            /\ \A k \in 1..Len(walk.steps) :
                  LET at == walk.steps[k].at
                  IN  IF walk.steps[k].real THEN P[at].im = 0 /\ walk.X[at] = 1
                      ELSE /\ at + 1 <= N
                           /\ P[at].im # 0
                           /\ P[at + 1] = CxConj(P[at])
                           /\ walk.X[at] = 1 /\ walk.X[at + 1] = 0
            /\ \A x \in EigenValues : Count(Placed(walk), x) = Count(last.arg.eVals, x)

----------------------------------------------------------------------------
(* The identification schedule of the online estimators.                   *)

(* The pushes (counted from 1) at which identification is due. *)
Due(bufLen, nShift, n) ==
    \E j \in 0..n : n = bufLen + (IF nShift - 2 > 0 THEN nShift - 2 ELSE 0) + j * nShift

(* C17: for bufLen >= 1 and nShift >= 1 an update attempts identification  *)
(* exactly at the pushes bufLen + max(nShift - 2, 0) + j * nShift, j = 0,  *)
(* 1, 2, ..., also after an earlier attempt has raised an error.           *)
C17_PeriodicSchedule ==
    \A o \in DOMAIN obj :
        (/\ IsOnline(obj[o].cls)
         /\ Buf(o).maxlen >= 1
         /\ obj[o].d.nShift.v >= 1
         /\ last.op = "update"
         /\ last.o = o) =>
            ((last.sysid.tag = "call") <=> Due(Buf(o).maxlen, obj[o].d.nShift.v, pushes[o]))

====
